---- MODULE Spec2Model ----
(***************************************************************************)
(* Job orchestration, progress tracking and cancellation of the download   *)
(* backend (src/main.py).  The four module-level dictionaries are the      *)
(* shared state; every Flask handler and every worker thread is a process  *)
(* whose steps interleave at the granularity of the dictionary accesses.   *)
(*                                                                         *)
(* Progress values are kept in hundredths (22.5 is 2250), the resolution   *)
(* of round(x, 2) at line 65.                                              *)
(***************************************************************************)
EXTENDS Integers, Sequences, FiniteSets, TLC

\* ------------------------------------------------------------------ bounds
MaxTime == 2      \* clock seconds covered by a run: int(time.time()) in 1..MaxTime
MaxJobs == 1      \* submissions per run of Spec; SpecResubmit takes one more
MaxBytes == 2     \* size in bytes of every stream the extractor downloads
MaxTotal == 8     \* largest byte count of an event given to a single hook call
MaxFormats == 3   \* longest format list given to ensure_audio_video_format
MaxListed == 2    \* longest format list extract_info returns to a single download request

Ids == 1..MaxTime

\* ------------------------------------------------------------- messages
\* Texts are sequences of characters so that `"cancelled" in str(e)` is a
\* real substring test.
CancelledMarker == <<"c","a","n","c","e","l","l","e","d">>

MsgText(m) ==
  CASE m = "user_cancel" ->   \* "Descarga cancelada por el usuario"
         <<"D","e","s","c","a","r","g","a"," ","c","a","n","c","e","l","a","d","a",
           " ","p","o","r"," ","e","l"," ","u","s","u","a","r","i","o">>
    [] m = "cancelling" ->    \* "Cancelando descarga..."
         <<"C","a","n","c","e","l","a","n","d","o"," ","d","e","s","c","a","r","g","a",
           ".",".",".">>
    [] m = "extractor" ->     \* an opaque yt_dlp failure
         <<"E","R","R","O","R",":"," ","u","n","a","b","l","e"," ","t","o"," ",
           "d","o","w","n","l","o","a","d">>
    [] m = "ffmpeg" ->        \* "Error en FFmpeg: <stderr>"
         <<"E","r","r","o","r"," ","e","n"," ","F","F","m","p","e","g",":"," ">>
    [] m = "keyerror" ->      \* str(KeyError(video_id))
         <<"'","i","d","'">>
    [] OTHER -> <<>>

\* Python's `needle in hay` on strings.
Contains(hay, needle) ==
  \E k \in 0..(Len(hay) - Len(needle)) :
     \A j \in 1..Len(needle) : hay[k + j] = needle[j]

\* `"cancelled" in str(e)` (lines 82, 373, 399, 469, 485)
IsCancelledMsg(m) == Contains(MsgText(m), CancelledMarker)

\* ---------------------------------------------------------------- state
VARIABLES
  now,                    \* int(time.time())
  nsub,                   \* submissions accepted so far
  download_progress,      \* line 20: video_id -> job state, or NoJob
  download_processes,     \* line 21: the video_ids with a Popen handle
  download_threads,       \* line 22: the video_ids with a Thread object
  download_cancel_flags,  \* line 23: the video_ids mapped to True
  files,                  \* the download directory: <<video_id, kind>>
  worker,                 \* the worker thread: position, locals, extractor and process state
  cpc, cid,               \* the cancel_download request in flight: position and video_id
  cancel_ret,             \* status code of the last cancel_download response, 0 = none
                          \* yet or a request in flight
  open_responses,         \* the final_paths for which a get_video response stream is open
  served,                 \* history: video_ids whose artifact a get_video response delivered
  cancel_done,            \* history: video_ids for which cancel_download returned success
  cancel_early,           \* history: video_ids cancelled before any progress event
  cancel_had_proc,        \* history: the request in flight found a Popen handle when called
  sweep,                  \* the cleanup_downloads cycle: position and the os.listdir result
  call                    \* a single call of a function followed on its own: arguments,
                          \* position and result (SpecHook, SpecFormat)

vars == <<now, nsub, download_progress, download_processes, download_threads,
          download_cancel_flags, files, worker, cpc, cid, cancel_ret,
          open_responses, served, cancel_done, cancel_early, cancel_had_proc, sweep, call>>

NoJob == [status |-> "absent"]
NoSweep == [pc |-> "idle", listed |-> {}]
NoCall == [pc |-> "none"]
IdleWorker == [pc |-> "idle", vid |-> 0, kind |-> "none", stage |-> "video",
               got |-> 0, left |-> 0, exc |-> "none",
               proc |-> "none", video_path |-> FALSE, audio_path |-> FALSE]

\* A thread that has ended keeps nothing but the video_id it worked for.
Ended(r) == [IdleWorker EXCEPT !.pc = "done", !.vid = r.vid]

Has(i) == download_progress[i] # NoJob
Terminal(s) == s \in {"completed", "error", "cancelled"}
Statuses == {"starting", "video_downloading", "downloading_audio", "audio_downloading",
             "merging", "completed", "error", "cancelling", "cancelled"}

\* dict.update on download_progress[i]
Update(i, st, pr) ==
  [download_progress EXCEPT ![i] = [@ EXCEPT !.status = st, !.progress = pr]]
UpdateErr(i, st, pr, msg) ==
  [download_progress EXCEPT ![i] = [@ EXCEPT !.status = st, !.progress = pr, !.error = msg]]

\* ---------------------------------------------------------------- files
\* Names in DOWNLOAD_FOLDER, by kind:
\*   video            video_<id>.mp4          (final_path, line 587; ffmpeg output)
\*   video_part       video_<id>.mp4.part, video_<id>.f<n>.*  (extractor intermediates)
\*   final            <id>_final.mp3          (line 560)
\*   temp_raw         <id>_temp               (outtmpl of the audio job, line 561)
\*   temp_part        <id>_temp.part
\*   temp_mp3         <id>_temp.mp3           (line 629)
\*   temp_video       temp_video_<id>.<ext>   (line 348), temp_video_part its .part
\*   temp_audio       temp_audio_<id>.<ext>   (line 349), temp_audio_part its .part
FileKinds == {"video", "video_part", "final", "temp_raw", "temp_part", "temp_mp3",
              "temp_video", "temp_video_part", "temp_audio", "temp_audio_part"}

\* glob patterns of cancel_download, lines 755-762
CancelPatternKinds == {"video", "video_part", "temp_video", "temp_video_part",
                       "temp_audio", "temp_audio_part", "final", "temp_part", "temp_mp3"}

\* final_path of a job, lines 560 and 587
FinalPath(i) == <<i, IF download_progress[i].is_audio THEN "final" ELSE "video">>

\* ------------------------------------------------------------- progress
\* round(n / d) for naturals as Python's round() gives it: the nearest
\* integer, a tie going to the even one
RoundDiv(n, d) ==
  LET q == n \div d
      r == n % d
  IN  IF 2 * r > d \/ (2 * r = d /\ q % 2 = 1) THEN q + 1 ELSE q

\* AdjustedProgress with the weight of the download stages for every stage.
AdjustedProgress_one_weight(stage, downloaded, total) ==
  LET base_progress == IF stage = "video" THEN 0
                       ELSE IF stage = "audio" THEN 45 ELSE 90
  IN  base_progress * 100 + RoundDiv(downloaded * 100 * 45, total)

\* AdjustedProgress with the raw percentage added to the base unweighted.
AdjustedProgress_whole_percent(stage, downloaded, total) ==
  LET base_progress == IF stage = "video" THEN 0
                       ELSE IF stage = "audio" THEN 45 ELSE 90
  IN  base_progress * 100 + RoundDiv(downloaded * 100 * 100, total)

\* lines 46-65: round(base_progress + progress * weight, 2), in hundredths
AdjustedProgress(stage, downloaded, total) ==
  LET base_progress == IF stage = "video" THEN 0
                       ELSE IF stage = "audio" THEN 45 ELSE 90
      weight100 == IF stage # "merging" THEN 45 ELSE 10
  IN  base_progress * 100 + RoundDiv(downloaded * 100 * weight100, total)

Init ==
  /\ now = 1
  /\ nsub = 0
  /\ download_progress = [i \in Ids |-> NoJob]
  /\ download_processes = {}
  /\ download_threads = {}
  /\ download_cancel_flags = {}
  /\ files = {}
  /\ worker = IdleWorker
  /\ cpc = "idle"
  /\ cid = 0
  /\ cancel_ret = 0
  /\ open_responses = {}
  /\ served = {}
  /\ cancel_done = {}
  /\ cancel_early = {}
  /\ cancel_had_proc = FALSE
  /\ sweep = NoSweep
  /\ call = NoCall


\* ------------------------------------------------------------ submission
\* The job state registered at lines 579-585 (audio) and 615-620 (video).
NewJob(is_audio) ==
  [status |-> "starting", progress |-> 0, error |-> "none", is_audio |-> is_audio]

\* Files the extractor downloads for format_string, lines 588-592:
\* "<itag>+bestaudio/best" names two streams, every other selector one.
StreamCount(fmt) == IF fmt = "video_only" THEN 2 ELSE 1

\* video_id = f"{int(time.time())}", line 541
NewVideoId == now

\* POST /yt/download, lines 532-651.  fmt is the kind of the format the itag
\* selects in the extracted list; "absent" is an itag matching no format:
\* selected_format is None, is_audio_only is falsy and line 590 raises
\* AttributeError, answered 500 by line 651 before anything is registered.
\* The model follows one worker thread at a time: a submission is taken up
\* when no earlier worker thread is still running, and limit bounds their number.
Submit(fmt, limit) ==
  LET video_id == NewVideoId
  IN  IF fmt = "absent"
      THEN UNCHANGED vars
      ELSE /\ nsub < limit
           /\ worker.pc \in {"idle", "done"}
           /\ download_progress' =
                [download_progress EXCEPT ![video_id] = NewJob(fmt = "audio_only")]
           /\ worker' = [IdleWorker EXCEPT !.pc = "dl", !.vid = video_id, !.kind = fmt,
                                  !.left = StreamCount(fmt)]
           /\ download_threads' = download_threads \cup {video_id}
           /\ nsub' = nsub + 1
           /\ served' = served \ {video_id}
           /\ cancel_done' = cancel_done \ {video_id}
           /\ cancel_early' = cancel_early \ {video_id}
           /\ UNCHANGED <<now, download_processes, download_cancel_flags, files,
                          cpc, cid, cancel_ret, open_responses, cancel_had_proc, sweep, call>>

\* A two-stream job.  download_and_merge has no caller under src/: its job is
\* registered the way download() registers a video job (lines 615-620) and its
\* worker thread runs download_and_merge(url, v, a, final_path, video_id) and
\* nothing else.
SubmitTwoStream(limit) ==
  LET video_id == NewVideoId
  IN  /\ nsub < limit
      /\ worker.pc \in {"idle", "done"}
      /\ download_progress' = [download_progress EXCEPT ![video_id] = NewJob(FALSE)]
      /\ worker' = [IdleWorker EXCEPT !.pc = "dl", !.vid = video_id, !.kind = "merge",
                                 !.stage = "video", !.left = 1]
      /\ download_threads' = download_threads \cup {video_id}
      /\ nsub' = nsub + 1
      /\ served' = served \ {video_id}
      /\ cancel_done' = cancel_done \ {video_id}
      /\ cancel_early' = cancel_early \ {video_id}
      /\ UNCHANGED <<now, download_processes, download_cancel_flags, files,
                     cpc, cid, cancel_ret, open_responses, cancel_had_proc, sweep, call>>

download(fmt) == Submit(fmt, MaxJobs)
download_two_stream == SubmitTwoStream(MaxJobs)

\* A further submission, after the ones of Spec.
download_again(fmt) == Submit(fmt, MaxJobs + 1)
download_two_stream_again == SubmitTwoStream(MaxJobs + 1)

\* time.time() advances.  Only download reads the clock: it counts from the
\* second of the first submission, which is second 1, and its ticks matter
\* while a further submission can follow.
Tick ==
  /\ nsub > 0
  /\ nsub < MaxJobs + 1
  /\ now < MaxTime
  /\ now' = now + 1
  /\ UNCHANGED <<nsub, download_progress, download_processes, download_threads,
                 download_cancel_flags, files, worker, cpc, cid, cancel_ret,
                 open_responses, served, cancel_done, cancel_early, cancel_had_proc, sweep, call>>

\* ------------------------------------------------- extractor and ProgressHook
\* What a worker step leaves alone besides the registry, the files and itself.
WorkerFrame ==
  UNCHANGED <<now, nsub, download_threads, download_cancel_flags, cpc, cid,
              cancel_ret, open_responses, served, cancel_done, cancel_early, cancel_had_proc, sweep, call>>

\* An exception leaving the extractor call: caught at line 638 in
\* download_thread, at lines 372/398 and 484 in download_and_merge.
Raise(r, msg) ==
  [r EXCEPT !.pc = IF r.kind = "merge" THEN "m_exc" ELSE "exc", !.exc = msg]

\* The file a stream is downloaded into, and its name once complete.
PartKind(r) ==
  CASE r.kind = "merge" /\ r.stage = "video" -> "temp_video_part"
    [] r.kind = "merge" /\ r.stage = "audio" -> "temp_audio_part"
    [] r.kind = "audio_only" -> "temp_part"
    [] OTHER -> "video_part"
DoneKind(r) ==
  CASE r.kind = "merge" /\ r.stage = "video" -> "temp_video"
    [] r.kind = "merge" /\ r.stage = "audio" -> "temp_audio"
    [] r.kind = "audio_only" -> "temp_raw"
    [] r.kind = "combined" -> "video"
    [] OTHER -> "video_part"

\* lines 34-38 and 75-79: the cancel flag test of the hook
FlagSet(i) == i \in download_cancel_flags

\* f"{self.stage}_downloading", line 64
DownloadingStatus(stage) ==
  IF stage = "video" THEN "video_downloading"
  ELSE IF stage = "audio" THEN "audio_downloading" ELSE "merging_downloading"

\* The extractor writes one more byte of the current stream and calls the hook
\* with a "downloading" event; the hook runs up to line 45.
ExtractorChunk ==
  LET r == worker
      downloaded == r.got + 1
      total == MaxBytes
      r1 == [r EXCEPT !.got = downloaded]
  IN  /\ r.pc = "dl"
      /\ downloaded <= MaxBytes
      /\ files' = files \cup {<<r.vid, PartKind(r)>>}
      /\ worker' = (IF FlagSet(r.vid) THEN Raise(r1, "user_cancel")              \* line 38
           ELSE IF total # 0 /\ downloaded # 0 THEN [r1 EXCEPT !.pc = "hk_upd"]
           ELSE r1)
      /\ UNCHANGED <<download_progress, download_processes>>
      /\ WorkerFrame

\* lines 74-84: the exception of line 79 is raised inside the try of line 41
\* and re-raised by line 83 only if its text contains "cancelled"; otherwise
\* it is printed and the hook returns.
RecheckRaises(i) == FlagSet(i) /\ IsCancelledMsg("user_cancel")

\* lines 62-84: the update, then the second flag test.  A KeyError of a
\* missing entry is swallowed at lines 81-84 like every other exception.
HookUpdate ==
  LET r == worker
  IN  /\ r.pc = "hk_upd"
      /\ IF Has(r.vid)
         THEN /\ download_progress' =
                   Update(r.vid, DownloadingStatus(r.stage),
                          AdjustedProgress(r.stage, r.got, MaxBytes))
              /\ worker' = (IF RecheckRaises(r.vid) THEN Raise(r, "user_cancel")
                   ELSE [r EXCEPT !.pc = "dl"])
         ELSE /\ worker' = [worker EXCEPT !.pc = "dl"]
              /\ UNCHANGED download_progress
      /\ UNCHANGED <<download_processes, files>>
      /\ WorkerFrame

\* The stream is complete: the extractor renames the .part file and calls the
\* hook with a "finished" event; the hook runs lines 34-38.
ExtractorFinished ==
  LET r == worker
  IN  /\ r.pc = "dl"
      /\ r.got = MaxBytes
      /\ IF <<r.vid, PartKind(r)>> \notin files
         THEN /\ worker' = Raise(r, "extractor")
              /\ UNCHANGED files
         ELSE /\ files' = (files \ {<<r.vid, PartKind(r)>>}) \cup {<<r.vid, DoneKind(r)>>}
              /\ worker' = (IF FlagSet(r.vid) THEN Raise(r, "user_cancel")
                   ELSE [r EXCEPT !.pc = "hk_fin"])
      /\ UNCHANGED <<download_progress, download_processes>>
      /\ WorkerFrame

\* FinishedState with a progress write in the video branch too.
FinishedState_video_jump(job, stage) ==
  IF stage = "video" THEN [job EXCEPT !.status = "downloading_audio", !.progress = 4500]
  ELSE IF stage = "audio" THEN [job EXCEPT !.status = "merging", !.progress = 9000]
  ELSE [job EXCEPT !.status = "completed", !.progress = 10000]

\* lines 86-94: the writes of a "finished" event, by stage
FinishedState(job, stage) ==
  IF stage = "video" THEN [job EXCEPT !.status = "downloading_audio"]
  ELSE IF stage = "audio" THEN [job EXCEPT !.status = "merging", !.progress = 9000]
  ELSE [job EXCEPT !.status = "completed", !.progress = 10000]

HookFinished ==
  LET r == worker
  IN  /\ r.pc = "hk_fin"
      /\ IF Has(r.vid)
         THEN /\ download_progress' =
                   [download_progress EXCEPT ![r.vid] = FinishedState(@, r.stage)]
              /\ worker' = (IF r.left > 1 THEN [r EXCEPT !.pc = "dl", !.left = r.left - 1, !.got = 0]
                   ELSE [r EXCEPT !.pc = "ret", !.left = 0])
         ELSE /\ worker' = Raise(r, "keyerror")
              /\ UNCHANGED download_progress
      /\ UNCHANGED <<download_processes, files>>
      /\ WorkerFrame

\* The extractor fails.  With viaHook it first reports an "error" event:
\* lines 34-38, then the unguarded write of line 97.
ExtractorFail(viaHook) ==
  LET r == worker
  IN  /\ r.pc = "dl"
      /\ IF viaHook
         THEN IF FlagSet(r.vid)
              THEN /\ worker' = Raise(r, "user_cancel")
                   /\ UNCHANGED download_progress
              ELSE IF Has(r.vid)
              THEN /\ download_progress' =
                        [download_progress EXCEPT ![r.vid].status = "error"]
                   /\ worker' = Raise(r, "extractor")
              ELSE /\ worker' = Raise(r, "keyerror")
                   /\ UNCHANGED download_progress
         ELSE /\ worker' = Raise(r, "extractor")
              /\ UNCHANGED download_progress
      /\ UNCHANGED <<download_processes, files>>
      /\ WorkerFrame


\* The extractor call returns (ydl.download, ydl.extract_info): the merger or
\* the FFmpegExtractAudio postprocessor of a single-file job has run; in
\* download_and_merge the path is taken (lines 363, 389) and the status is
\* tested (lines 366-370, 392-396).
ExtractorReturn ==
  LET r == worker
      cancelled == Has(r.vid) /\ download_progress[r.vid].status = "cancelled"
  IN  /\ r.pc = "ret"
      /\ CASE r.kind = "combined" ->
                /\ worker' = [worker EXCEPT !.pc = "commit"]
                /\ UNCHANGED files
           [] r.kind = "video_only" ->
                IF <<r.vid, "video_part">> \in files
                THEN /\ files' = (files \ {<<r.vid, "video_part">>}) \cup {<<r.vid, "video">>}
                     /\ worker' = [worker EXCEPT !.pc = "commit"]
                ELSE /\ worker' = Raise(r, "extractor")
                     /\ UNCHANGED files
           [] r.kind = "audio_only" ->
                IF <<r.vid, "temp_raw">> \in files
                THEN /\ files' = (files \ {<<r.vid, "temp_raw">>}) \cup {<<r.vid, "temp_mp3">>}
                     /\ worker' = [worker EXCEPT !.pc = "move"]
                ELSE /\ worker' = Raise(r, "extractor")
                     /\ UNCHANGED files
           [] r.kind = "merge" /\ r.stage = "video" ->
                /\ worker' = (IF cancelled THEN Raise([r EXCEPT !.video_path = TRUE], "user_cancel")
                     ELSE [r EXCEPT !.video_path = TRUE, !.stage = "audio",
                                    !.got = 0, !.left = 1, !.pc = "dl"])
                /\ UNCHANGED files
           [] r.kind = "merge" /\ r.stage = "audio" ->
                /\ worker' = (IF cancelled THEN Raise([r EXCEPT !.audio_path = TRUE], "user_cancel")
                     ELSE [r EXCEPT !.audio_path = TRUE, !.pc = "m_merge"])
                /\ UNCHANGED files
      /\ UNCHANGED <<download_progress, download_processes>>
      /\ WorkerFrame

\* ------------------------------------------------------- download_thread
\* lines 627-633
download_thread_move ==
  LET r == worker
  IN  /\ r.pc = "move"
      /\ files' = IF <<r.vid, "temp_mp3">> \in files
                  THEN (files \ {<<r.vid, "temp_mp3">>}) \cup {<<r.vid, "final">>}
                  ELSE files
      /\ worker' = [worker EXCEPT !.pc = "commit"]
      /\ UNCHANGED <<download_progress, download_processes>>
      /\ WorkerFrame

\* lines 635-637; a missing entry raises KeyError into line 638
download_thread_commit ==
  LET r == worker
  IN  /\ r.pc = "commit"
      /\ IF Has(r.vid)
         THEN /\ download_progress' = Update(r.vid, "completed", 10000)
              /\ worker' = Ended(r)
         ELSE /\ worker' = Raise(r, "keyerror")
              /\ UNCHANGED download_progress
      /\ UNCHANGED <<download_processes, files>>
      /\ WorkerFrame

\* download_thread's handler without the "error" key of line 639.
download_thread_except_no_message ==
  LET r == worker
  IN  /\ r.pc = "exc"
      /\ download_progress' =
           IF Has(r.vid)
           THEN [download_progress EXCEPT ![r.vid] = [@ EXCEPT !.status = "error"]]
           ELSE download_progress
      /\ worker' = Ended(r)
      /\ UNCHANGED <<download_processes, files>>
      /\ WorkerFrame

\* lines 638-640; with the entry missing the handler itself raises and the
\* thread ends
download_thread_except ==
  LET r == worker
  IN  /\ r.pc = "exc"
      /\ download_progress' =
           IF Has(r.vid)
           THEN [download_progress EXCEPT ![r.vid] =
                   [@ EXCEPT !.status = "error", !.error = r.exc]]
           ELSE download_progress
      /\ worker' = Ended(r)
      /\ UNCHANGED <<download_processes, files>>
      /\ WorkerFrame

\* ---------------------------------------------------- download_and_merge
\* line 407
merge_set_merging ==
  LET r == worker
  IN  /\ r.pc = "m_merge"
      /\ IF Has(r.vid)
         THEN /\ download_progress' = Update(r.vid, "merging", 9000)
              /\ worker' = [worker EXCEPT !.pc = "m_popen"]
         ELSE /\ worker' = Raise(r, "keyerror")
              /\ UNCHANGED download_progress
      /\ UNCHANGED <<download_processes, files>>
      /\ WorkerFrame

\* lines 437-452: ffmpeg is started and its handle registered.  ffmpeg opens
\* its inputs first: without them it exits at once with a nonzero code and
\* writes nothing; with them it creates output_path.
merge_popen ==
  LET r == worker
      inputs == {<<r.vid, "temp_video">>, <<r.vid, "temp_audio">>} \subseteq files
  IN  /\ r.pc = "m_popen"
      /\ files' = IF inputs THEN files \cup {<<r.vid, "video">>} ELSE files
      /\ worker' = ([r EXCEPT !.pc = "m_wait", !.proc = IF inputs THEN "running" ELSE "exit1"])
      /\ download_processes' = download_processes \cup {r.vid}
      /\ UNCHANGED download_progress
      /\ WorkerFrame

\* The encoder process ends by itself, with code 0 or not.
ProcExit(ok) ==
  LET r == worker
  IN  /\ r.proc = "running"
      /\ worker' = [worker EXCEPT !.proc = IF ok THEN "exit0" ELSE "exit1"]
      /\ UNCHANGED <<download_progress, download_processes, files>>
      /\ WorkerFrame

\* lines 455-473: communicate() has returned
merge_wait ==
  LET r == worker
      failed == r.proc # "exit0"
      cancelled == Has(r.vid) /\ download_progress[r.vid].status = "cancelled"
      error_msg == IF cancelled THEN "user_cancel" ELSE "ffmpeg"
  IN  /\ r.pc = "m_wait"
      /\ r.proc # "running"
      /\ IF Has(r.vid) /\ (cancelled \/ failed)
         THEN /\ download_progress' =
                   IF ~IsCancelledMsg(error_msg)
                   THEN [download_progress EXCEPT ![r.vid] =
                           [@ EXCEPT !.status = "error", !.error = error_msg]]
                   ELSE download_progress
              /\ worker' = Raise(r, error_msg)
         ELSE /\ worker' = [worker EXCEPT !.pc = "m_del"]
              /\ UNCHANGED download_progress
      /\ UNCHANGED <<download_processes, files>>
      /\ WorkerFrame

\* lines 475-477
merge_del_process ==
  LET r == worker
  IN  /\ r.pc = "m_del"
      /\ download_processes' = download_processes \ {r.vid}
      /\ worker' = [worker EXCEPT !.pc = "m_commit"]
      /\ UNCHANGED <<download_progress, files>>
      /\ WorkerFrame

\* lines 479-482
merge_commit ==
  LET r == worker
  IN  /\ r.pc = "m_commit"
      /\ IF Has(r.vid)
         THEN /\ download_progress' = Update(r.vid, "completed", 10000)
              /\ worker' = [worker EXCEPT !.pc = "m_fin"]
         ELSE /\ worker' = Raise(r, "keyerror")
              /\ UNCHANGED download_progress
      /\ UNCHANGED <<download_processes, files>>
      /\ WorkerFrame

\* The handlers of lines 372-378 / 398-404 and 484-488: the inner one writes
\* status and error unguarded, the outer one overwrites both when the entry
\* exists; an entry missing in the inner one raises KeyError, whose text has
\* no marker either.
merge_except ==
  LET r == worker
  IN  /\ r.pc = "m_exc"
      /\ download_progress' =
           IF ~IsCancelledMsg(r.exc) /\ Has(r.vid)
           THEN [download_progress EXCEPT ![r.vid] =
                   [@ EXCEPT !.status = "error", !.error = r.exc]]
           ELSE download_progress
      /\ worker' = [worker EXCEPT !.pc = "m_fin"]
      /\ UNCHANGED <<download_processes, files>>
      /\ WorkerFrame

\* lines 490-509: video_path and audio_path are set only once the extractor
\* call of their stage has returned
merge_finally ==
  LET r == worker
      gone == (IF r.video_path THEN {<<r.vid, "temp_video">>} ELSE {})
              \cup (IF r.audio_path THEN {<<r.vid, "temp_audio">>} ELSE {})
  IN  /\ r.pc = "m_fin"
      /\ files' = files \ gone
      /\ download_processes' = download_processes \ {r.vid}
      /\ worker' = Ended(r)
      /\ UNCHANGED download_progress
      /\ WorkerFrame


\* -------------------------------------------------------- cancel_download
\* One POST /yt/cancel/<video_id> request is in flight at a time; its steps
\* interleave with the worker, the sweeper and the other handlers.
CancelFrame ==
  UNCHANGED <<now, nsub, open_responses, served, sweep, call>>

\* No progress hook has run yet for the job of this id: its worker is in the
\* extractor call of its first stream with nothing downloaded
NoEventYet(i) ==
  worker.vid = i =>
     /\ worker.pc = "dl" /\ worker.got = 0 /\ worker.stage = "video"
     /\ worker.left = StreamCount(worker.kind)

\* cancel_download with lines 714 and 718 exchanged: the flag is set before the
\* registry test.
cancel_download_flag_first(i) ==
  /\ cpc = "idle"
  /\ download_cancel_flags' = download_cancel_flags \cup {i}
  /\ IF ~Has(i)
     THEN /\ cancel_ret' = 404
          /\ UNCHANGED <<cpc, cid, cancel_early, cancel_had_proc>>
     ELSE /\ cpc' = "c_status"
          /\ cid' = i
          /\ cancel_ret' = 0
          /\ cancel_early' = IF NoEventYet(i) THEN cancel_early \cup {i}
                             ELSE cancel_early \ {i}
          /\ cancel_had_proc' = (i \in download_processes)
  /\ UNCHANGED <<download_progress, download_processes, download_threads, files,
                 worker, cancel_done>>
  /\ CancelFrame

\* lines 713-718: the registry test, then the flag
cancel_download(i) ==
  /\ cpc = "idle"
  /\ IF ~Has(i)
     THEN /\ cancel_ret' = 404
          /\ UNCHANGED <<download_cancel_flags, cpc, cid, cancel_early, cancel_had_proc>>
     ELSE /\ download_cancel_flags' = download_cancel_flags \cup {i}
          /\ cpc' = "c_status"
          /\ cid' = i
          /\ cancel_ret' = 0
          /\ cancel_early' = IF NoEventYet(i) THEN cancel_early \cup {i}
                             ELSE cancel_early \ {i}
          /\ cancel_had_proc' = (i \in download_processes)
  /\ UNCHANGED <<download_progress, download_processes, download_threads, files,
                 worker, cancel_done>>
  /\ CancelFrame

\* lines 720-723; KeyError is answered 500 by line 792
cancel_set_cancelling ==
  /\ cpc = "c_status"
  /\ IF Has(cid)
     THEN /\ download_progress' = UpdateErr(cid, "cancelling", 0, "cancelling")
          /\ cpc' = "c_proc"
          /\ UNCHANGED <<cid, cancel_ret>>
     ELSE /\ cpc' = "idle"
          /\ cid' = 0
          /\ cancel_ret' = 500
          /\ UNCHANGED download_progress
  /\ UNCHANGED <<download_processes, download_threads, download_cancel_flags, files,
                 worker, cancel_done, cancel_early, cancel_had_proc, sweep, call>>
  /\ CancelFrame

\* line 726
cancel_check_process ==
  /\ cpc = "c_proc"
  /\ cpc' = IF cid \in download_processes THEN "c_kill" ELSE "c_files"
  /\ UNCHANGED cancel_ret
  /\ UNCHANGED <<download_progress, download_processes, download_threads,
                 download_cancel_flags, files, worker, cid, cancel_done, cancel_early, cancel_had_proc, sweep, call>>
  /\ CancelFrame

\* lines 727-750.  With the key gone, line 728 raises KeyError, which line 747
\* swallows, and the del of line 750 raises it again: line 792 answers 500.
cancel_kill ==
  LET running == worker.vid = cid /\ worker.proc = "running"
  IN  /\ cpc = "c_kill"
      /\ IF cid \notin download_processes
         THEN /\ cpc' = "idle"
              /\ cid' = 0
              /\ cancel_ret' = 500
              /\ UNCHANGED <<download_processes, worker>>
         ELSE /\ worker' = [worker EXCEPT !.proc = IF running THEN "killed" ELSE @]
              /\ download_processes' = download_processes \ {cid}
              /\ cpc' = "c_files"
              /\ UNCHANGED <<cid, cancel_ret>>
      /\ UNCHANGED <<download_progress, download_threads, download_cancel_flags, files,
                     cancel_done, cancel_early, cancel_had_proc, sweep, call>>
      /\ CancelFrame

\* lines 752-772
cancel_remove_files ==
  /\ cpc = "c_files"
  /\ files' = files \ {<<cid, k>> : k \in CancelPatternKinds}
  /\ cpc' = "c_final"
  /\ UNCHANGED cancel_ret
  /\ UNCHANGED <<download_progress, download_processes, download_threads,
                 download_cancel_flags, worker, cid, cancel_done, cancel_early, cancel_had_proc, sweep, call>>
  /\ CancelFrame

\* lines 774-781
cancel_set_cancelled ==
  /\ cpc = "c_final"
  /\ IF Has(cid)
     THEN /\ download_progress' = UpdateErr(cid, "cancelled", 0, "user_cancel")
          /\ cpc' = "c_threads"
          /\ UNCHANGED <<cid, cancel_ret>>
     ELSE /\ cpc' = "idle"
          /\ cid' = 0
          /\ cancel_ret' = 500
          /\ UNCHANGED download_progress
  /\ UNCHANGED <<download_processes, download_threads, download_cancel_flags, files,
                 worker, cancel_done, cancel_early, cancel_had_proc, sweep, call>>
  /\ CancelFrame

\* lines 783-789
cancel_return ==
  /\ cpc = "c_threads"
  /\ download_threads' = download_threads \ {cid}
  /\ cpc' = "idle"
  /\ cid' = 0
  /\ cancel_ret' = 200
  /\ cancel_done' = cancel_done \cup {cid}
  /\ UNCHANGED <<download_progress, download_processes, download_cancel_flags, files,
                 worker, cancel_early, cancel_had_proc, sweep, call>>
  /\ CancelFrame

\* ------------------------------------------------------ cleanup_downloads
\* line 815
Swept == {i \in Ids : Has(i) /\ Terminal(download_progress[i].status)}

\* lines 799-802: a cycle begins with os.listdir(DOWNLOAD_FOLDER).  Only the
\* cycles that find a terminal entry at their start are followed: any other
\* cycle either changes nothing or acts as one started later does.
cleanup_list ==
  /\ sweep.pc = "idle"
  /\ Swept # {}
  /\ sweep' = [pc |-> "files", listed |-> files]
  /\ UNCHANGED <<now, nsub, download_progress, download_processes, download_threads,
                 download_cancel_flags, files, worker, cpc, cid, cancel_ret,
                 open_responses, served, cancel_done, cancel_early, cancel_had_proc, call>>

\* lines 803-827, the rest of the cycle.  os.path.getmtime (line 804) is
\* outside the try of line 805: for a listed file that is gone it raises into
\* line 826 and the cycle ends before the registry pass.  No file is older
\* than 3600 s within MaxTime seconds, so the file pass removes nothing.
cleanup_downloads ==
  /\ sweep.pc = "files"
  /\ sweep' = NoSweep
  /\ IF sweep.listed \subseteq files
     THEN /\ download_progress' =
               [i \in Ids |-> IF i \in Swept THEN NoJob ELSE download_progress[i]]
          /\ download_processes' = download_processes \ Swept
          /\ download_threads' = download_threads \ Swept
          /\ download_cancel_flags' = download_cancel_flags \ Swept
          /\ served' = served \ Swept
          /\ cancel_done' = cancel_done \ Swept
          /\ cancel_early' = cancel_early \ Swept
     ELSE UNCHANGED <<download_progress, download_processes, download_threads,
                      download_cancel_flags, served, cancel_done, cancel_early>>
  /\ UNCHANGED <<now, nsub, files, worker, cpc, cid, cancel_ret, open_responses,
                 cancel_had_proc, call>>

\* lines 526-528: the answer of GET /yt/progress/<video_id>
get_progress(i) == IF Has(i) THEN download_progress[i] ELSE [status |-> "not_found"]

\* -------------------------------------------------------------- get_video
\* lines 658-666: the answer of GET /yt/download/<video_id>
FetchCode(i) ==
  IF ~Has(i) THEN 404
  ELSE IF download_progress[i].status # "completed" THEN 400
  ELSE IF FinalPath(i) \notin files THEN 404
  ELSE 200

\* lines 655-707: on 200 the response streams final_path; any other answer
\* changes nothing
get_video(i) ==
  /\ IF FetchCode(i) = 200
     THEN /\ open_responses' = open_responses \cup {FinalPath(i)}
          /\ served' = served \cup {i}
     ELSE UNCHANGED <<open_responses, served>>
  /\ UNCHANGED <<now, nsub, download_progress, download_processes, download_threads,
                 download_cancel_flags, files, worker, cpc, cid, cancel_ret,
                 cancel_done, cancel_early, cancel_had_proc, sweep, call>>

\* lines 690-702: the stream of a response for path closes; last tells whether
\* it was the only open response for that path
on_close(path, last) ==
  /\ path \in open_responses
  /\ open_responses' = IF last THEN open_responses \ {path} ELSE open_responses
  /\ files' = files \ {path, <<path[1], "temp_raw">>, <<path[1], "temp_mp3">>}
  /\ UNCHANGED <<now, nsub, download_progress, download_processes, download_threads,
                 download_cancel_flags, worker, cpc, cid, cancel_ret, served,
                 cancel_done, cancel_early, cancel_had_proc, sweep, call>>

\* ------------------------------------------------------------------ system
FormatKinds == {"combined", "video_only", "audio_only", "absent"}

WorkerStep ==
  \/ ExtractorChunk
  \/ HookUpdate
  \/ ExtractorFinished
  \/ HookFinished
  \/ \E viaHook \in BOOLEAN : ExtractorFail(viaHook)
  \/ ExtractorReturn
  \/ download_thread_move
  \/ download_thread_commit
  \/ download_thread_except
  \/ merge_set_merging
  \/ merge_popen
  \/ merge_wait
  \/ merge_del_process
  \/ merge_commit
  \/ merge_except
  \/ merge_finally

CancelStep ==
  \/ cancel_set_cancelling
  \/ cancel_check_process
  \/ cancel_kill
  \/ cancel_remove_files
  \/ cancel_set_cancelled
  \/ cancel_return

Handlers ==
  \/ WorkerStep
  \/ \E ok \in BOOLEAN : ProcExit(ok)
  \/ \E i \in Ids : cancel_download(i)
  \/ CancelStep
  \/ cleanup_list
  \/ cleanup_downloads
  \/ \E i \in Ids : get_video(i)
  \/ \E path \in Ids \X {"video", "final"}, last \in BOOLEAN : on_close(path, last)

Next ==
  \/ \E fmt \in FormatKinds : download(fmt)
  \/ download_two_stream
  \/ Handlers

Spec == Init /\ [][Next]_vars

\* The same system with one more submission and the clock.
NextResubmit ==
  \/ \E fmt \in FormatKinds : download_again(fmt)
  \/ download_two_stream_again
  \/ Tick
  \/ Handlers

SpecResubmit == Init /\ [][NextResubmit]_vars

\* ------------------------------------------------ one ProgressHook call
\* ProgressHook.__call__ as a whole, for one event d given to the hook of a
\* job whose entry and cancel flag are in any state: lines 32-97.
Stages == {"video", "audio", "merging"}
Events == {"downloading", "finished", "error"}

\* The entries the call may find for its video_id.
HookJobs ==
  {NoJob}
  \cup {[NewJob(FALSE) EXCEPT !.status = st[1], !.progress = st[2]] :
          st \in {<<"starting", 0>>, <<"video_downloading", 2250>>,
                  <<"audio_downloading", 6750>>, <<"merging", 9000>>}}

InitHook ==
  /\ now = 1
  /\ nsub = 0
  /\ download_progress \in {[i \in Ids |-> IF i = 1 THEN j ELSE NoJob] : j \in HookJobs}
  /\ download_processes = {}
  /\ download_threads = {}
  /\ download_cancel_flags \in {{}, {1}}
  /\ files = {}
  /\ worker = IdleWorker
  /\ cpc = "idle"
  /\ cid = 0
  /\ cancel_ret = 0
  /\ open_responses = {}
  /\ served = {}
  /\ cancel_done = {}
  /\ cancel_early = {}
  /\ cancel_had_proc = FALSE
  /\ sweep = NoSweep
  /\ call \in {[pc |-> "hook", video_id |-> 1, stage |-> st, event |-> ev,
                 downloaded |-> d, total |-> t, exc |-> "none",
                 before |-> download_progress[1]] :
                  st \in Stages, ev \in Events, d \in 0..MaxTotal, t \in 0..MaxTotal}

ProgressHook_call ==
  LET i == call.video_id
      returned == [call EXCEPT !.pc = "returned"]
      raised(msg) == [call EXCEPT !.pc = "raised", !.exc = msg]
  IN  /\ call.pc = "hook"
      /\ IF FlagSet(i)                                             \* lines 34-38
         THEN /\ call' = raised("user_cancel")
              /\ UNCHANGED download_progress
         ELSE CASE call.event = "downloading" ->                    \* lines 40-84
                     IF call.total # 0 /\ call.downloaded # 0 /\ Has(i)
                     THEN /\ download_progress' =
                               Update(i, DownloadingStatus(call.stage),
                                      AdjustedProgress(call.stage, call.downloaded,
                                                       call.total))
                          /\ call' = IF RecheckRaises(i) THEN raised("user_cancel")
                                     ELSE returned
                     ELSE /\ call' = returned
                          /\ UNCHANGED download_progress
                [] call.event = "finished" ->                       \* lines 86-94
                     IF Has(i)
                     THEN /\ download_progress' =
                               [download_progress EXCEPT ![i] = FinishedState(@, call.stage)]
                          /\ call' = returned
                     ELSE /\ call' = raised("keyerror")
                          /\ UNCHANGED download_progress
                [] call.event = "error" ->                          \* lines 96-97
                     IF Has(i)
                     THEN /\ download_progress' =
                               [download_progress EXCEPT ![i].status = "error"]
                          /\ call' = returned
                     ELSE /\ call' = raised("keyerror")
                          /\ UNCHANGED download_progress
      /\ UNCHANGED <<now, nsub, download_processes, download_threads,
                     download_cancel_flags, files, worker, cpc, cid, cancel_ret,
                     open_responses, served, cancel_done, cancel_early,
                     cancel_had_proc, sweep>>

NextHook == ProgressHook_call

SpecHook == InitHook /\ [][NextHook]_vars

\* ------------------------------------------------------ format resolution
\* A format of the extractor's list: its id, its two codecs ("none" or a codec
\* name) and its filesize, 0 standing for a missing or null one.
FormatIds == {"18", "137", "140"}
Codecs == {"none", "codec"}
FileSizes == {0, 1, 2}
FormatRecords ==
  [format_id : FormatIds, vcodec : Codecs, acodec : Codecs, filesize : FileSizes]

\* None
NoFormat == [format_id |-> ""]

\* the sort key of line 305
FilesizeKey(f) == IF f.filesize # 0 THEN f.filesize ELSE 0

\* lines 291-297
AudioFormats(formats) ==
  SelectSeq(formats, LAMBDA f : f.acodec # "none" /\ f.vcodec = "none" /\ f.format_id # "")

\* get_best_audio_for_format with the first candidate in place of max().
get_best_audio_for_format_first(formats) ==
  LET audio_formats == AudioFormats(formats)
  IN  IF audio_formats = <<>> THEN NoFormat ELSE audio_formats[1]

\* lines 289-306; max() returns the first of the largest
get_best_audio_for_format(formats) ==
  LET audio_formats == AudioFormats(formats)
  IN  IF audio_formats = <<>> THEN NoFormat
      ELSE audio_formats[CHOOSE k \in 1..Len(audio_formats) :
             /\ \A j \in 1..Len(audio_formats) :
                   FilesizeKey(audio_formats[j]) <= FilesizeKey(audio_formats[k])
             /\ \A j \in 1..(k - 1) :
                   FilesizeKey(audio_formats[j]) < FilesizeKey(audio_formats[k])]

\* lines 309-338
ensure_audio_video_format(format_id, formats) ==
  LET matches == {k \in 1..Len(formats) : formats[k].format_id = format_id}
      selected_format ==
        IF matches = {} THEN NoFormat
        ELSE formats[CHOOSE k \in matches : \A j \in matches : k <= j]
      best_audio == get_best_audio_for_format(formats)
  IN  IF selected_format = NoFormat THEN "best"
      ELSE IF selected_format.acodec # "none" /\ selected_format.vcodec # "none"
      THEN format_id
      ELSE IF /\ selected_format.vcodec # "none"
              /\ selected_format.acodec = "none"
              /\ best_audio # NoFormat
      THEN format_id \o "+" \o best_audio.format_id
      ELSE "best"

\* One call, for any list of at most MaxFormats formats.  Format ids are
\* interchangeable, so one requested id stands for all.
InitFormat ==
  /\ now = 1
  /\ nsub = 0
  /\ download_progress = [i \in Ids |-> NoJob]
  /\ download_processes = {}
  /\ download_threads = {}
  /\ download_cancel_flags = {}
  /\ files = {}
  /\ worker = IdleWorker
  /\ cpc = "idle"
  /\ cid = 0
  /\ cancel_ret = 0
  /\ open_responses = {}
  /\ served = {}
  /\ cancel_done = {}
  /\ cancel_early = {}
  /\ cancel_had_proc = FALSE
  /\ sweep = NoSweep
  /\ call = [pc |-> "ensure", format_id |-> "137", formats |-> <<>>, result |-> ""]

\* What a step of the call leaves alone.
FormatFrame ==
  UNCHANGED <<now, nsub, download_progress, download_processes, download_threads,
              download_cancel_flags, files, worker, cpc, cid, cancel_ret,
              open_responses, served, cancel_done, cancel_early,
              cancel_had_proc, sweep>>

\* The extractor's list has one more format.
add_format(f) ==
  /\ call.pc = "ensure"
  /\ Len(call.formats) < MaxFormats
  /\ call' = [call EXCEPT !.formats = Append(@, f)]
  /\ FormatFrame

ensure_call ==
  /\ call.pc = "ensure"
  /\ call' = [call EXCEPT !.pc = "returned",
                          !.result = ensure_audio_video_format(call.format_id, call.formats)]
  /\ FormatFrame

NextFormat ==
  \/ \E f \in FormatRecords : add_format(f)
  \/ ensure_call

SpecFormat == InitFormat /\ [][NextFormat]_vars

\* -------------------------------------------------- one download request
\* download() as a whole for one request, lines 532-651: the body of the
\* request, the outcome of extract_info and the list it returns are any, and
\* the registry is empty or holds a job completed earlier.  The formats of the
\* list differ in what download reads: format_id, vcodec, acodec.
ListedFormats == {f \in FormatRecords : f.filesize = 0}
ListedSeqs == UNION {[1..n -> ListedFormats] : n \in 0..MaxListed}

\* lines 549-553: the first format whose format_id is itag, or None
SelectedFormat(formats, itag) ==
  LET matches == {k \in 1..Len(formats) : formats[k].format_id = itag}
  IN  IF matches = {} THEN NoFormat
      ELSE formats[CHOOSE k \in matches : \A j \in matches : k <= j]

\* lines 556 and 588-592: what the selected format makes of the job
SelectedKind(formats, itag) ==
  LET selected_format == SelectedFormat(formats, itag)
  IN  IF selected_format = NoFormat THEN "absent"
      ELSE IF selected_format.vcodec = "none" THEN "audio_only"
      ELSE IF selected_format.acodec = "none" THEN "video_only"
      ELSE "combined"

\* The status code of the answer: 400 at line 537; 500 at line 651 for an
\* exception of extract_info (545) and for the AttributeError of line 590 on
\* a selected_format that is None; 200 at line 646.
DownloadCode(c) ==
  IF ~c.has_url \/ ~c.has_itag THEN 400
  ELSE IF c.raises THEN 500
  ELSE IF SelectedKind(c.formats, c.itag) = "absent" THEN 500
  ELSE 200

InitSubmit ==
  /\ \E prior \in BOOLEAN :
        IF prior
        THEN /\ now \in Ids
             /\ nsub = 1
             /\ download_progress =
                  [i \in Ids |-> IF i = 1
                                 THEN [NewJob(FALSE) EXCEPT !.status = "completed",
                                                            !.progress = 10000]
                                 ELSE NoJob]
             /\ download_threads = {1}
             /\ files = {<<1, "video">>}
             /\ worker = Ended([IdleWorker EXCEPT !.vid = 1])
        ELSE /\ now = 1
             /\ nsub = 0
             /\ download_progress = [i \in Ids |-> NoJob]
             /\ download_threads = {}
             /\ files = {}
             /\ worker = IdleWorker
  /\ download_processes = {}
  /\ download_cancel_flags = {}
  /\ cpc = "idle"
  /\ cid = 0
  /\ cancel_ret = 0
  /\ open_responses = {}
  /\ served = {}
  /\ cancel_done = {}
  /\ cancel_early = {}
  /\ cancel_had_proc = FALSE
  /\ sweep = NoSweep
  /\ call \in {[pc |-> "download", has_url |-> u, has_itag |-> t, raises |-> x,
                 itag |-> "137", formats |-> fs, code |-> 0] :
                  u \in BOOLEAN, t \in BOOLEAN, x \in BOOLEAN, fs \in ListedSeqs}

\* What a download request leaves alone whatever its outcome.
SubmitFrame ==
  UNCHANGED <<now, download_processes, download_cancel_flags, files, cpc, cid,
              cancel_ret, open_responses, served, cancel_done, cancel_early,
              cancel_had_proc, sweep>>

\* download() with the entry registered before line 590 is evaluated.
download_call_register_first ==
  LET video_id == NewVideoId
      code == DownloadCode(call)
      fmt == SelectedKind(call.formats, call.itag)
  IN  /\ call.pc = "download"
      /\ call' = [call EXCEPT !.pc = "returned", !.code = code]
      /\ IF code = 200
         THEN /\ download_progress' =
                   [download_progress EXCEPT ![video_id] = NewJob(fmt = "audio_only")]
              /\ worker' = [IdleWorker EXCEPT !.pc = "dl", !.vid = video_id, !.kind = fmt,
                                     !.left = StreamCount(fmt)]
              /\ download_threads' = download_threads \cup {video_id}
              /\ nsub' = nsub + 1
         ELSE IF code = 500 /\ ~call.raises
         THEN /\ download_progress' =
                   [download_progress EXCEPT ![video_id] = NewJob(FALSE)]
              /\ UNCHANGED <<worker, download_threads, nsub>>
         ELSE UNCHANGED <<download_progress, worker, download_threads, nsub>>
      /\ SubmitFrame

\* lines 532-651: an accepted request registers its job and starts the worker
\* as Submit does; a refused one answers before line 579/615
download_call ==
  LET video_id == NewVideoId
      code == DownloadCode(call)
      fmt == SelectedKind(call.formats, call.itag)
  IN  /\ call.pc = "download"
      /\ call' = [call EXCEPT !.pc = "returned", !.code = code]
      /\ IF code = 200
         THEN /\ download_progress' =
                   [download_progress EXCEPT ![video_id] = NewJob(fmt = "audio_only")]
              /\ worker' = [IdleWorker EXCEPT !.pc = "dl", !.vid = video_id, !.kind = fmt,
                                     !.left = StreamCount(fmt)]
              /\ download_threads' = download_threads \cup {video_id}
              /\ nsub' = nsub + 1
         ELSE UNCHANGED <<download_progress, worker, download_threads, nsub>>
      /\ SubmitFrame

NextSubmit == download_call

SpecSubmit == InitSubmit /\ [][NextSubmit]_vars

\* ------------------------------------------------------------ properties
\* The worker thread of job i has ended and no cancel_download request is in
\* flight: nothing but a new request can change the job from here on.
Quiescent(i) == worker.vid = i /\ worker.pc = "done" /\ cpc = "idle"

\* C1: once cancel_download has returned success for a job, no later step of
\* the job's worker thread leaves the job with a status other than "cancelled"
\* while its entry exists.
C1_CancelledIsSticky ==
  [][\A i \in Ids :
        (i \in cancel_done /\ Has(i) /\ worker.vid = i /\ WorkerStep /\ Has(i)')
           => download_progress'[i].status = "cancelled"]_vars

\* C2: a job is committed as "completed" only when its cancel flag is not set
\* at the commit.
C2_NoCommitUnderFlag ==
  [][\A i \in Ids :
        (Has(i) /\ Has(i)' /\ download_progress[i].status # "completed"
                /\ download_progress'[i].status = "completed")
           => ~FlagSet(i)]_vars

\* C3: a job cancelled before any progress event, whose cancel_download
\* returned success and whose worker has ended, has status "cancelled",
\* progress 0 and no file of its own left in the download directory.
C3_EarlyCancelEndsCancelled ==
  \A i \in Ids :
     (i \in cancel_early /\ i \in cancel_done /\ Quiescent(i) /\ Has(i))
        => /\ download_progress[i].status = "cancelled"
           /\ download_progress[i].progress = 0
           /\ \A k \in FileKinds : <<i, k>> \notin files

\* C4: once a job's status is completed, error or cancelled, no step changes
\* its status or its progress; the entry can only be removed.
C4_TerminalIsFinal ==
  [][\A i \in Ids :
        (Has(i) /\ Terminal(download_progress[i].status) /\ Has(i)')
           => /\ download_progress'[i].status = download_progress[i].status
              /\ download_progress'[i].progress = download_progress[i].progress]_vars

\* C5: every job reaches completed, error or cancelled: once its worker thread
\* has ended and no cancel request is in flight, a job still registered is in
\* one of the three.
C5_EndsTerminal ==
  \A i \in Ids :
     (Quiescent(i) /\ Has(i)) => Terminal(download_progress[i].status)

\* C6: while a job is not in a terminal status its progress never decreases,
\* except for the one drop to 0 that comes with the move to cancelling or
\* cancelled.
C6_ProgressMonotonic ==
  [][\A i \in Ids :
        (Has(i) /\ Has(i)' /\ ~Terminal(download_progress[i].status))
           => \/ download_progress'[i].progress >= download_progress[i].progress
              \/ /\ download_progress'[i].progress = 0
                 /\ download_progress'[i].status \in {"cancelling", "cancelled"}
                 /\ download_progress[i].status \notin {"cancelling", "cancelled"}]_vars

\* C7: after a get_video response has delivered the artifact of a job, every
\* later get_video request for the same video_id is answered 404.
C7_ServedOnce ==
  \A i \in served : FetchCode(i) = 404

\* C8: when a cancel_download request that found a process handle for its job
\* returns and the job is still registered, the job has no handle, no running
\* process and no file matching a temp pattern.
C8_CancelLeavesNothing ==
  [][(cpc # "idle" /\ cpc' = "idle" /\ cancel_had_proc
        /\ download_progress'[cid] # NoJob)
        => /\ cid \notin download_processes'
           /\ ~(worker'.vid = cid /\ worker'.proc = "running")
           /\ \A k \in CancelPatternKinds : <<cid, k>> \notin files']_vars

\* C9: cancel_download for a video_id with no registry entry answers 404 and
\* changes no job state, no flag, no process handle, no thread and no file.
C9_CancelAbsentChangesNothing ==
  [][\A i \in Ids :
        (~Has(i) /\ cancel_download(i))
           => /\ cancel_ret' = 404
              /\ UNCHANGED <<download_progress, download_processes, download_threads,
                             download_cancel_flags, files, worker, cpc, cid>>]_vars

\* A request for an absent id has been answered 404 while another job is
\* registered, flagged and has files on disk.
C9_Witness ==
  /\ cancel_ret = 404
  /\ cpc = "idle"
  /\ \E i \in Ids : ~Has(i)
  /\ \E j \in Ids : Has(j) /\ FlagSet(j) /\ j \in download_threads
  /\ files # {}

\* C10: download never replaces an entry: the video_id of an accepted
\* submission is not in the registry when the submission registers its job.
C10_FreshVideoId ==
  [][nsub' = nsub + 1 => ~Has(NewVideoId)]_vars

\* C11: every video_id that is a key of download_processes or of
\* download_threads is a key of download_progress.
C11_HandlesHaveJob ==
  (download_processes \cup download_threads) \subseteq {i \in Ids : Has(i)}

\* C12: whenever a job's status becomes "completed", the file at its
\* final_path exists at that moment.
C12_CompletedHasFile ==
  [][\A i \in Ids :
        (Has(i) /\ Has(i)' /\ download_progress[i].status # "completed"
                /\ download_progress'[i].status = "completed")
           => FinalPath(i)' \in files']_vars

\* C17: while the worker of a combined-format job runs, the job shows no
\* status but starting, video_downloading and completed (and, when it fails or
\* is cancelled, error, cancelling and cancelled).
C17_SingleFileStatuses ==
  [][\A i \in Ids :
        (worker.vid = i /\ worker.kind = "combined" /\ Has(i)')
           => download_progress'[i].status \in
                {"starting", "video_downloading", "completed",
                 "error", "cancelling", "cancelled"}]_vars

C20_RecheckAborts ==
  [][\A i \in Ids :
        (worker.vid = i /\ worker.pc = "hk_upd" /\ Has(i) /\ FlagSet(i) /\ HookUpdate)
           => /\ worker'.pc \in {"exc", "m_exc"}
              /\ worker'.exc = "user_cancel"]_vars

\* C13: a cleanup_downloads cycle removes every entry whose status is
\* completed, error or cancelled, with its process handle, thread and cancel
\* flag, leaves every other entry as it is, and get_progress then answers
\* not_found for the removed ids.
C13_SweepRemovesTerminal ==
  [][cleanup_downloads =>
       \A i \in Ids :
          /\ (Has(i) /\ Terminal(download_progress[i].status))
                => /\ i \notin download_processes'
                   /\ i \notin download_threads'
                   /\ i \notin download_cancel_flags'
                   /\ get_progress(i)' = [status |-> "not_found"]
          /\ (Has(i) /\ ~Terminal(download_progress[i].status))
                => download_progress'[i] = download_progress[i]]_vars

\* The call recorded a "downloading" update: lines 62-72 ran.
HookRecorded ==
  /\ call.pc = "returned"
  /\ call.event = "downloading"
  /\ call.total # 0 /\ call.downloaded # 0
  /\ call.before # NoJob

\* base and weight of a stage, in hundredths and in percent
StageBase(stage) == IF stage = "video" THEN 0 ELSE IF stage = "audio" THEN 4500 ELSE 9000
StageWeight(stage) == IF stage = "merging" THEN 10 ELSE 45

\* C14 as stated: the recorded progress equals base + rawPercent * weight
\* exactly, rawPercent = downloaded / total * 100.
C14_ProgressExact ==
  HookRecorded =>
     (download_progress[call.video_id].progress - StageBase(call.stage)) * call.total
        = call.downloaded * 100 * StageWeight(call.stage)

\* C14, amended: the recorded progress is base + rawPercent * weight rounded
\* to two decimals: a whole number of hundredths at most half a hundredth away
\* from the exact value.
C14_ProgressRounded ==
  HookRecorded =>
     LET p == download_progress[call.video_id].progress - StageBase(call.stage)
         exact == call.downloaded * 100 * StageWeight(call.stage)
     IN  /\ 2 * (p * call.total - exact) <= call.total
         /\ 2 * (exact - p * call.total) <= call.total

\* A video event of 1 byte out of 7 has been recorded as 6.43.
C14_Witness ==
  /\ HookRecorded
  /\ call.stage = "video" /\ call.downloaded = 1 /\ call.total = 7
  /\ download_progress[call.video_id].progress = 643

\* C16: every registered job's status is one of the nine of Statuses,
\* whatever the stage of the progress event that wrote it.
C16_StatusInSet ==
  \A i \in Ids : Has(i) => download_progress[i].status \in Statuses

\* C18: a "finished" event leaves the job as it was but for: status
\* downloading_audio at the video stage; status merging and progress 90 at the
\* audio stage; status completed and progress 100 at the merge stage.
C18_FinishedByStage ==
  (call.pc = "returned" /\ call.event = "finished") =>
     /\ download_progress[call.video_id] =
          (CASE call.stage = "video" ->
                  [call.before EXCEPT !.status = "downloading_audio"]
             [] call.stage = "audio" ->
                  [call.before EXCEPT !.status = "merging", !.progress = 9000]
             [] call.stage = "merging" ->
                  [call.before EXCEPT !.status = "completed", !.progress = 10000])
     /\ \A j \in Ids \ {call.video_id} : download_progress[j] = NoJob

\* A "finished" event of the merge stage has completed a job that was merging.
C18_Witness ==
  /\ call.pc = "returned" /\ call.event = "finished" /\ call.stage = "merging"
  /\ call.before.status = "merging"
  /\ download_progress[call.video_id].status = "completed"
  /\ download_progress[call.video_id].progress = 10000

\* C15: ensure_audio_video_format returns the id when the selected format has
\* both codecs; "<id>+<audioId>" when it has only a video codec and the list
\* has an audio-only format, audioId being the id of an audio-only format of
\* the list of largest filesize; and "best" in every other case.
C15_FormatResolution ==
  call.pc = "returned" =>
     LET id == call.format_id
         fs == call.formats
         matches == {k \in 1..Len(fs) : fs[k].format_id = id}
         first == CHOOSE k \in matches : \A j \in matches : k <= j
         audio_only == {k \in 1..Len(fs) : fs[k].acodec # "none" /\ fs[k].vcodec = "none"}
         largest == {k \in audio_only : \A j \in audio_only : fs[j].filesize <= fs[k].filesize}
     IN  IF matches # {} /\ fs[first].vcodec # "none" /\ fs[first].acodec # "none"
         THEN call.result = id
         ELSE IF matches # {} /\ fs[first].vcodec # "none" /\ audio_only # {}
         THEN \E k \in largest : call.result = id \o "+" \o fs[k].format_id
         ELSE call.result = "best"

\* A video-only selection has been paired with the larger of two audio-only
\* formats, which is not the first of them in the list.
C15_Witness ==
  /\ call.pc = "returned"
  /\ call.result = "137+140"
  /\ Len(call.formats) = 3
  /\ call.formats[1] = [format_id |-> "18", vcodec |-> "none", acodec |-> "codec", filesize |-> 1]
  /\ call.formats[2] = [format_id |-> "137", vcodec |-> "codec", acodec |-> "none", filesize |-> 2]
  /\ call.formats[3] = [format_id |-> "140", vcodec |-> "none", acodec |-> "codec", filesize |-> 2]

\* The order of the positions of a cancel_download request: lines 718, 721,
\* 726, 728-750, 753-772, 775, 784-789; a position can also be left by an
\* exception, to the handler of line 791.
CancelOrder ==
  {<<"idle", "c_status">>, <<"c_status", "c_proc">>, <<"c_proc", "c_kill">>,
   <<"c_proc", "c_files">>, <<"c_kill", "c_files">>, <<"c_files", "c_final">>,
   <<"c_final", "c_threads">>, <<"c_threads", "idle">>}
  \cup {<<p, "idle">> : p \in {"c_status", "c_kill", "c_final"}}

\* C21: cancel_download on a registered job sets the flag and the status
\* cancelling, then kills and unregisters the process handle if there is one,
\* then removes the files, then sets status cancelled with progress 0, then
\* removes the thread entry; when it returns success the flag is set, the
\* status is cancelled, the progress is 0 and the job has neither a process
\* handle nor a thread entry.
C21_CancelStepsAndResult ==
  [][/\ cpc' # cpc => <<cpc, cpc'>> \in CancelOrder
     /\ cancel_return =>
          /\ cid \in download_cancel_flags'
          /\ download_progress'[cid] # NoJob
          /\ download_progress'[cid].status = "cancelled"
          /\ download_progress'[cid].progress = 0
          /\ cid \notin download_processes'
          /\ cid \notin download_threads']_vars

\* C22: a cancel_download request that found its job registered never
\* answers with an error, whatever the worker and the sweeper do to the
\* process handle or to the entry meanwhile: it answers 200 and does not
\* leave the job in status cancelling.
C22_CancelNeverFails ==
  [][(cpc # "idle" /\ cpc' = "idle") =>
        /\ cancel_ret' = 200
        /\ download_progress'[cid] # NoJob
              => download_progress'[cid].status # "cancelling"]_vars

\* The files written under the two outtmpl names of lines 348-349.
TempStreamKinds == {"temp_video", "temp_video_part", "temp_audio", "temp_audio_part"}

\* C23: when download_and_merge ends, by success, failure or cancellation, no
\* temp video file and no temp audio file of its job is left in the download
\* directory.
C23_NoTempFilesLeft ==
  [][merge_finally =>
        \A k \in TempStreamKinds : <<worker.vid, k>> \notin files']_vars

\* The worker of a two-stream job is past both extract_info calls.
BothReturned(r) == r.video_path /\ r.audio_path

\* The state part of C24, for the two-stream worker r and the registry.
StagesInOrder(r, progress, processes) ==
  /\ r.kind = "merge" =>
        /\ r.stage = "audio" => r.video_path
        /\ r.pc \in {"m_merge", "m_popen", "m_wait", "m_del", "m_commit"} => BothReturned(r)
        /\ r.proc # "none" => BothReturned(r)
  /\ \A i \in processes :
        /\ r.vid = i /\ r.proc # "none"
        /\ progress[i] # NoJob /\ progress[i].status = "merging"
  /\ r.pc = "done" => r.vid \notin processes

\* C24: a two-stream job runs video download, audio download, merge in this
\* order: status merging is written only after both downloads returned, the
\* encoder is started only after that, a process handle exists only while the
\* encoder of the job is in flight, the job being in status merging, and none
\* remains once download_and_merge has ended.
C24_StagesInOrder ==
  [][/\ StagesInOrder(worker', download_progress', download_processes')
     /\ \A i \in Ids :
           (/\ worker.vid = i /\ worker.kind = "merge"
            /\ download_progress[i] # NoJob /\ download_progress'[i] # NoJob
            /\ download_progress[i].status # "merging"
            /\ download_progress'[i].status = "merging")
              => BothReturned(worker')
     /\ merge_popen => download_progress[worker.vid] # NoJob
                         /\ download_progress[worker.vid].status = "merging"]_vars

\* C25: every registered job's progress is between 0 and 100, for a progress
\* event of any stage whose byte counters satisfy downloaded <= total and for
\* a finished event of any stage.  The hook's writes do not read the
\* progress they replace, and cancel_download and the worker's commit write
\* the constants 0 and 100 (lines 722, 778, 480, 636), so a sequence of events
\* stays in the range when every single call does.
C25_ProgressInRange ==
  (call.event = "downloading" => call.downloaded <= call.total) =>
     \A i \in Ids : Has(i) =>
        /\ download_progress[i].progress >= 0
        /\ download_progress[i].progress <= 10000

\* A merge-stage event with all bytes downloaded has been recorded as 100,
\* and an audio-stage one as 90.
C25_Witness ==
  /\ HookRecorded
  /\ call.downloaded = call.total
  /\ \/ call.stage = "merging" /\ download_progress[call.video_id].progress = 10000
     \/ call.stage = "audio" /\ download_progress[call.video_id].progress = 9000

\* C26: a download request with url or itag missing, with extract_info
\* raising, or with an itag that matches no format of the extracted list is
\* answered with an error and changes nothing: no job state, thread, process
\* handle or cancel flag is created and no worker thread is started.
C26_FailedSubmissionChangesNothing ==
  [][(/\ call.pc = "download"
      /\ \/ ~call.has_url
         \/ ~call.has_itag
         \/ call.raises
         \/ \A k \in 1..Len(call.formats) : call.formats[k].format_id # call.itag)
        => /\ call'.code \in {400, 500}
           /\ UNCHANGED <<download_progress, download_threads, download_processes,
                          download_cancel_flags, worker, nsub, files>>]_vars

\* A request whose itag matches none of the formats extracted has been
\* answered 500 while an earlier job is registered.
C26_Witness ==
  /\ call.pc = "returned"
  /\ call.code = 500
  /\ call.has_url /\ call.has_itag /\ ~call.raises
  /\ Len(call.formats) > 0
  /\ Has(1) /\ 1 \in download_threads

====
